---- MODULE Spec2Model ----
(***************************************************************************)
(* Model of apps/backend/python: the Aider runner (aider_runner.py), the   *)
(* direct-API runner (simple_ai_runner.py) and the model comparison tool   *)
(* (aider_analysis.py).                                                    *)
(*                                                                         *)
(* Text is modelled structurally.  A string is a sequence of lines (what   *)
(* str.split('\n') returns, so the empty string is one empty line), a line *)
(* is a sequence of tokens, and a token is either the whitespace token     *)
(* " " or a word.  Prefix and suffix tests and strip() work on tokens.     *)
(*                                                                         *)
(* A directory is the sequence of its path components below the root       *)
(* folder the caller names; a file is [dir, stem, ext].                    *)
(***************************************************************************)
EXTENDS Integers, Sequences, FiniteSets, TLC

VARIABLES
    \* ---- the file system and the git repository (environment) ----
    rootExists,     \* the folder the caller names exists
    siteDir,        \* <folder>/site exists and is a directory
    files,          \* the files below the folder
    gitDir,         \* <folder>/.git exists
    head,           \* number of the commit HEAD points to, 0: no commit yet
    \* ---- the request ----
    runner,         \* the program run: "aider", "simple" or "analysis"
    form,           \* folder_path is given "abs"olute or "rel"ative
    cwd0,           \* working directory of the process when the call starts
    \* ---- run_aider_on_folder ----
    pc,             \* position in run_aider_on_folder
    target_folder,
    web_files,
    original_cwd,
    cwd,            \* the process working directory (os.getcwd())
    file_args,      \* the --file arguments of argv, in order
    before_commit,
    after_commit,   \* after_commit of analyze_aider_output
    aider_output,
    file_changed,
    user_output,
    exc,            \* the exception in flight: "none", "Exception", "BaseException"
    exc_text,       \* str(e) of the exception in flight
    result,         \* the records returned to the caller, in order
    \* ---- AiderAnalysis.run_aider_test ----
    procAlive,      \* the aider process started by Popen is running
    test_result,    \* the records run_aider_test returned, in order
    \* ---- observation ----
    agentCalls,     \* calls of aider_main made
    gitQueries,     \* calls of get_git_head_commit made
    chdirCalls,     \* calls of os.chdir made
    elapsed,        \* time units the running agent has taken so far
    agent_stdout,   \* the text the agent printed to sys.stdout in its call
    rev_at_call,    \* the commit HEAD pointed to when the agent was called
    \* ---- the process ----
    environ_key,    \* os.environ holds a non-empty OPENAI_API_KEY
    sys_stdout,     \* the object sys.stdout names
    console         \* what was printed to the streams of the process, in order

envVars == <<rootExists, siteDir, files, gitDir, head>>
reqVars == <<runner, form, cwd0>>
runVars == <<pc, target_folder, web_files, original_cwd, cwd, file_args,
             before_commit, after_commit, aider_output, file_changed,
             user_output, exc, exc_text, result>>
obsVars == <<agentCalls, gitQueries, chdirCalls, elapsed>>
testVars == <<procAlive, test_result>>
runVars_but_pc == <<target_folder, web_files, original_cwd, cwd, file_args,
                    before_commit, after_commit, aider_output, file_changed,
                    user_output, exc, exc_text, result>>
histVars == <<agent_stdout, rev_at_call>>
procVars == <<environ_key, sys_stdout, console>>
vars == <<envVars, reqVars, runVars, obsVars, testVars, histVars, procVars>>

----------------------------------------------------------------------------
(* Bounds *)

\* longest agent output, in lines
MaxLines == 2
\* commits the agent makes during one invocation, at most
MaxCommits == 1
\* time units the clock is followed past the timeout of run_aider_test
MaxOverrun == 1
\* longest agent output handed to create_user_output on its own, in lines
MaxReduceLines == 3
\* most writes of the agent to its standard error stream in one call
MaxStderrWrites == 1
\* the maxLength the retained output is measured against, in characters
\* (a token and a line break count as one character each)
MaxLength == 3

----------------------------------------------------------------------------
(* Program constants *)

\* aider_analysis.py: process.communicate(..., timeout=60)
TEST_TIMEOUT == 60

----------------------------------------------------------------------------
(* Text *)

SP == " "
NL == "\n"
IsSpace(tok) == tok \in {SP, NL}

Last(s) == s[Len(s)]
Front(s) == SubSeq(s, 1, Len(s) - 1)

\* str.startswith / str.endswith on one line
StartsWith(line, prefix) ==
    /\ Len(line) >= Len(prefix)
    /\ SubSeq(line, 1, Len(prefix)) = prefix

EndsWith(line, suffix) ==
    /\ Len(line) >= Len(suffix)
    /\ SubSeq(line, Len(line) - Len(suffix) + 1, Len(line)) = suffix

\* str.lstrip / str.rstrip / str.strip on one line
RECURSIVE LStrip(_)
LStrip(line) ==
    IF line = <<>> THEN <<>>
    ELSE IF IsSpace(Head(line)) THEN LStrip(Tail(line)) ELSE line

RECURSIVE RStrip(_)
RStrip(line) ==
    IF line = <<>> THEN <<>>
    ELSE IF IsSpace(Last(line)) THEN RStrip(Front(line)) ELSE line

Strip(line) == RStrip(LStrip(line))

\* str.strip on a string of several lines: the newline is whitespace too
RECURSIVE LStripText(_)
LStripText(t) ==
    IF Len(t) = 1 THEN <<LStrip(t[1])>>
    ELSE IF LStrip(t[1]) = <<>> THEN LStripText(Tail(t))
    ELSE <<LStrip(t[1])>> \o Tail(t)

RECURSIVE RStripText(_)
RStripText(t) ==
    IF Len(t) = 1 THEN <<RStrip(t[1])>>
    ELSE IF RStrip(Last(t)) = <<>> THEN RStripText(Front(t))
    ELSE Front(t) \o <<RStrip(Last(t))>>

StripText(t) == RStripText(LStripText(t))

\* the empty string, and '\n'.join(lines)
EmptyStr == << <<>> >>
Join(lines) == IF lines = <<>> THEN EmptyStr ELSE lines

\* a one-line string made of the given tokens
Str(tokens) == << tokens >>

----------------------------------------------------------------------------
(* The lines an agent prints *)

AddedLine   == <<"Added", SP, "index.html", SP, "to", SP, "the", SP, "chat.">>
ModelLine   == <<"Main model:", SP, "gpt-5">>
TokensLine  == <<"Tokens:", SP, "1.2k", SP, "sent">>
ContentLine == <<"Sure,", SP, "done.">>
BlankLine   == <<SP>>
EmptyLine   == <<>>

AgentLines == {EmptyLine, BlankLine, ContentLine, AddedLine, ModelLine, TokensLine}

\* every string of 1..MaxLines lines; the one-line string <<EmptyLine>> is ""
AgentOutputs == UNION {[1..n -> AgentLines] : n \in 1..MaxLines}

\* str(e) of the errors the agent raises
AgentErrors == {<<>>, <<"boom">>}

----------------------------------------------------------------------------
(* Paths *)

ROOT    == <<>>
SITE    == <<"site">>
OUTSIDE == <<"..">>          \* a directory that is not below the folder
NOWHERE == <<"?">>           \* a path that names no existing directory

File(d, s, e) == [dir |-> d, stem |-> s, ext |-> e]

\* the files a folder may hold, in directory-listing order
FileOrder == <<
    File(ROOT, "index", "html"),
    File(ROOT, "README", "md"),
    File(SITE, "index", "html"),
    File(<<"site", "css">>, "main", "css"),
    File(<<"assets">>, "app", "js") >>

FileUniverse == {FileOrder[i] : i \in 1..Len(FileOrder)}

IsPrefix(p, s) == Len(p) <= Len(s) /\ SubSeq(s, 1, Len(p)) = p

\* os.path.exists of a directory below the folder
DirExists(d) ==
    /\ rootExists
    /\ \/ d = ROOT
       \/ d = SITE /\ siteDir
       \/ \E f \in files : IsPrefix(d, f.dir)

\* glob: the pattern "*.<ext>" matches a name that ends in ".<ext>" and
\* does not start with a dot
Match(ext, f) == f.ext = ext /\ f.stem # ""

patterns == <<"html", "js", "css">>

\* glob.glob(str(folder / pattern))
GlobDirect(folder, ext) ==
    SelectSeq(FileOrder,
              LAMBDA f : f \in files /\ f.dir = folder /\ Match(ext, f))

\* glob.glob(str(folder / "**" / pattern), recursive=True): "**" stands for
\* zero or more directories
GlobRecursive(folder, ext) ==
    SelectSeq(FileOrder,
              LAMBDA f : f \in files /\ IsPrefix(folder, f.dir) /\ Match(ext, f))

RECURSIVE FindLoop(_, _)
FindLoop(folder, i) ==
    IF i > Len(patterns) THEN <<>>
    ELSE GlobDirect(folder, patterns[i]) \o GlobRecursive(folder, patterns[i])
         \o FindLoop(folder, i + 1)

\* faulty variant: the search starts at the folder the caller named
find_web_files_in_root(folder) == FindLoop(ROOT, 1)

\* find_web_files, for a folder that exists
find_web_files(folder) == FindLoop(folder, 1)

\* os.path.relpath(file_path, target_folder) of a file below target_folder
relpath(f, folder) ==
    File(SubSeq(f.dir, Len(folder) + 1, Len(f.dir)), f.stem, f.ext)

\* faulty variant: the site subdirectory is ignored
ResolveTarget_no_site == ROOT

\* the directory run_aider_on_folder picks for the web files
ResolveTarget == IF DirExists(SITE) THEN SITE ELSE ROOT

\* The directory folder_path names while the working directory is d.  An
\* absolute path names the folder whatever d is.  A relative path names it
\* from the directory the call started in; from elsewhere "." names d
\* itself and any other relative path names no directory.
ResolveFolder(d) ==
    IF form = "abs" \/ d = cwd0 THEN ROOT
    ELSE IF cwd0 = ROOT THEN d
    ELSE NOWHERE

----------------------------------------------------------------------------
(* Git *)

CommitIds == <<"c1", "c2", "c3", "c4">>

\* os.path.exists(os.path.join(folder_path, '.git'))
HasGit(d) == d = ROOT /\ rootExists /\ gitDir

\* stdout of `git rev-parse HEAD` in a repository with a commit
RevParseStdout == <<CommitIds[head], NL>>

\* get_git_head_commit; ok is FALSE when the git query raises (timeout,
\* git missing), the return code is non-zero when HEAD names no commit
get_git_head_commit(d, ok) ==
    IF ~HasGit(d) THEN <<>>
    ELSE IF ~ok THEN <<>>
    ELSE IF head # 0 THEN Strip(RevParseStdout)
    ELSE <<>>

\* faulty variant: any commit after the run counts as a change
analyze_any_commit(d, before, ok) ==
    HasGit(d) /\ get_git_head_commit(d, ok) # <<>>

\* analyze_aider_output
analyze_aider_output(d, before, ok) ==
    IF ~HasGit(d) THEN FALSE
    ELSE LET after == get_git_head_commit(d, ok)
         IN  IF after = <<>> THEN FALSE ELSE before # after

----------------------------------------------------------------------------
(* create_user_output *)

AddedPrefix == <<"Added", SP>>
ChatSuffix  == <<SP, "to", SP, "the", SP, "chat.">>

\* the box-drawing character U+2500 of the rule lines aider prints
BOX == "U+2500"

\* the prefixes of the lines that are dropped
Banners == { <<BOX>>, <<"Aider v">>, <<"Main model:">>, <<"Weak model:">>,
             <<"Git repo:">>, <<"Repo-map:">> }

Fallback == Str(<<"Hello! How can I help you with your landing page today?">>)

\* faulty variant: the loop goes on after the tokens line
RECURSIVE ResponseLines_no_break(_, _)
ResponseLines_no_break(lines, acc) ==
    IF lines = <<>> THEN acc
    ELSE LET line == Head(lines)
         IN  IF StartsWith(Strip(line), AddedPrefix) /\ EndsWith(Strip(line), ChatSuffix)
             THEN ResponseLines_no_break(Tail(lines), acc)
             ELSE IF /\ Strip(line) # <<>>
                     /\ \A b \in Banners : ~StartsWith(line, b)
                     /\ ~StartsWith(Strip(line), <<"Tokens:">>)
             THEN ResponseLines_no_break(Tail(lines), Append(acc, Strip(line)))
             ELSE ResponseLines_no_break(Tail(lines), acc)

\* the loop over the lines of the not-changed branch
RECURSIVE ResponseLines(_, _)
ResponseLines(lines, acc) ==
    IF lines = <<>> THEN acc
    ELSE LET line == Head(lines)
         IN  IF StartsWith(Strip(line), AddedPrefix) /\ EndsWith(Strip(line), ChatSuffix)
             THEN ResponseLines(Tail(lines), acc)
             ELSE IF /\ Strip(line) # <<>>
                     /\ \A b \in Banners : ~StartsWith(line, b)
             THEN IF StartsWith(Strip(line), <<"Tokens:">>)
                  THEN acc
                  ELSE ResponseLines(Tail(lines), Append(acc, Strip(line)))
             ELSE ResponseLines(Tail(lines), acc)

\* faulty variant: the output of the changed branch is stripped
create_user_output_stripped(output, changed) ==
    IF changed THEN StripText(output)
    ELSE LET response == StripText(Join(ResponseLines(output, <<>>)))
         IN  IF response # EmptyStr THEN response ELSE Fallback

create_user_output(output, changed) ==
    IF changed THEN output
    ELSE LET response == StripText(Join(ResponseLines(output, <<>>)))
         IN  IF response # EmptyStr THEN response ELSE Fallback

\* the two messages run_aider_on_folder builds itself
NoFilesMsg(folder) == Str(<<"No HTML, JS, or CSS files found in ", folder>>)
ErrorMsg(text) == Str(<<"Error running Aider: ">> \o text)

FolderNotFound == <<"Folder not found: ", ROOT>>
OSErrorText == <<"[Errno 13] Permission denied">>

----------------------------------------------------------------------------
(* The state before the call *)

\* the streams the process starts with, and the io.StringIO of line 252
CONSOLE == "console"
OUTPUT_CAPTURE == "output_capture"

\* what the process prints: the warning about the missing key, the error of
\* setup_test_environment, the JSON record, and text of the agent
KeyWarning  == "OPENAI_API_KEY not set"
SetupError  == "Error setting up test environment"
JsonResult  == "json.dumps(result)"
AgentStdout == "agent: stdout"
AgentStderr == "agent: stderr"

\* faulty variant: sys.stdout is left as it is
redirect_stdout_skipped(new_target) == sys_stdout

\* line 253: contextlib.redirect_stdout sets sys.stdout to new_target for
\* the with block (and puts the old stream back when the block is left)
redirect_stdout(new_target) == new_target

\* the agent prints text to sys.stdout: it comes out on the console unless
\* sys.stdout names the buffer
ConsoleAfterPrint(text) ==
    IF sys_stdout = CONSOLE THEN Append(console, AgentStdout) ELSE console

\* line 258: output_capture.getvalue(), the text printed into the buffer
getvalue(text) ==
    IF sys_stdout = OUTPUT_CAPTURE THEN text ELSE EmptyStr

\* how the caller names the folder, and the directory the caller is in
Requests == {<<"abs", OUTSIDE>>, <<"rel", OUTSIDE>>, <<"rel", ROOT>>}

\* a folder, or none
AnyFolder ==
    /\ rootExists \in BOOLEAN
    /\ files \in SUBSET FileUniverse
    /\ siteDir \in BOOLEAN
    /\ ~rootExists => files = {} /\ ~siteDir
    /\ (\E f \in files : IsPrefix(SITE, f.dir)) => siteDir

\* no repository, a repository without a commit, or one with a commit
AnyRepository ==
    /\ gitDir \in BOOLEAN
    /\ head \in 0..1
    /\ ~rootExists => ~gitDir
    /\ ~gitDir => head = 0

\* setup_test_environment: <output_dir>/test_site with one index.html
TestSite ==
    /\ rootExists = TRUE
    /\ files = {File(ROOT, "index", "html")}
    /\ siteDir = FALSE
    /\ gitDir = FALSE
    /\ head = 0

Init ==
    /\ \/ /\ runner = "aider"
          /\ AnyFolder
          /\ AnyRepository
          /\ \E r \in Requests : form = r[1] /\ cwd0 = r[2]
          /\ pc = "start"
       \/ /\ runner = "simple"
          /\ AnyFolder
          /\ gitDir = FALSE /\ head = 0
          /\ form = "abs" /\ cwd0 = OUTSIDE
          /\ pc = "ai_start"
       \/ /\ runner = "analysis"
          /\ TestSite
          /\ form = "rel" /\ cwd0 = OUTSIDE
          /\ pc = "test_start"
    /\ procAlive = FALSE
    /\ test_result = <<>>
    /\ target_folder = ROOT
    /\ web_files = <<>>
    /\ original_cwd = cwd0
    /\ cwd = cwd0
    /\ file_args = <<>>
    /\ before_commit = <<>>
    /\ after_commit = <<>>
    /\ aider_output = EmptyStr
    /\ file_changed = FALSE
    /\ user_output = EmptyStr
    /\ exc = "none"
    /\ exc_text = <<>>
    /\ result = <<>>
    /\ agentCalls = 0
    /\ gitQueries = 0
    /\ chdirCalls = 0
    /\ elapsed = 0
    /\ agent_stdout = EmptyStr
    /\ rev_at_call = 0
    /\ environ_key = TRUE
    /\ sys_stdout = CONSOLE
    /\ console = <<>>

----------------------------------------------------------------------------
(* run_aider_on_folder, step by step *)

Record(text, changed) == [userOutput |-> text, fileChanged |-> changed]

\* `return {...}` outside the inner try block
Return(text, changed) ==
    /\ result' = Append(result, Record(text, changed))
    /\ pc' = "returned"

\* the handler of the outer try block: `except Exception as e`
ExceptHandler(text) == Return(ErrorMsg(text), FALSE)

\* lines 203-209: pick the target folder
PickTarget ==
    /\ pc = "start"
    /\ target_folder' = ResolveTarget
    /\ pc' = "find"
    /\ UNCHANGED <<web_files, original_cwd, cwd, file_args, before_commit,
                   after_commit, aider_output, file_changed, user_output,
                   exc, exc_text, result>>
    /\ UNCHANGED <<envVars, reqVars, histVars, procVars, obsVars, testVars>>

\* lines 212-218: find the web files; a missing folder raises
\* FileNotFoundError, an empty list returns at once
FindFiles ==
    /\ pc = "find"
    /\ IF ~DirExists(target_folder)
       THEN /\ ExceptHandler(FolderNotFound)
            /\ UNCHANGED web_files
       ELSE /\ web_files' = find_web_files(target_folder)
            /\ IF web_files' = <<>>
               THEN Return(NoFilesMsg(target_folder), FALSE)
               ELSE pc' = "chdir" /\ UNCHANGED result
    /\ UNCHANGED <<target_folder, original_cwd, cwd, file_args, before_commit,
                   after_commit, aider_output, file_changed, user_output,
                   exc, exc_text>>
    /\ UNCHANGED <<envVars, reqVars, histVars, procVars, obsVars, testVars>>

\* lines 221-222: remember the working directory and enter the target
EnterTarget ==
    /\ pc = "chdir"
    /\ original_cwd' = cwd
    /\ cwd' = target_folder
    /\ chdirCalls' = chdirCalls + 1
    /\ pc' = "argv"
    /\ UNCHANGED <<target_folder, web_files, file_args, before_commit,
                   after_commit, aider_output, file_changed, user_output,
                   exc, exc_text, result>>
    /\ UNCHANGED <<envVars, reqVars, histVars, procVars, testVars, agentCalls, gitQueries, elapsed>>

\* line 222 when os.chdir raises OSError: the inner try block is not
\* entered yet, the outer handler builds the result
EnterTargetFails ==
    /\ pc = "chdir"
    /\ original_cwd' = cwd
    /\ chdirCalls' = chdirCalls + 1
    /\ ExceptHandler(OSErrorText)
    /\ UNCHANGED <<target_folder, web_files, cwd, file_args, before_commit,
                   after_commit, aider_output, file_changed, user_output,
                   exc, exc_text>>
    /\ UNCHANGED <<envVars, reqVars, histVars, procVars, testVars, agentCalls, gitQueries, elapsed>>

\* lines 226-242: argv, one --file per entry of web_files
BuildArgv ==
    /\ pc = "argv"
    /\ file_args' = [i \in 1..Len(web_files) |-> relpath(web_files[i], target_folder)]
    /\ pc' = "before"
    /\ UNCHANGED <<target_folder, web_files, original_cwd, cwd, before_commit,
                   after_commit, aider_output, file_changed, user_output,
                   exc, exc_text, result>>
    /\ UNCHANGED <<envVars, reqVars, histVars, procVars, obsVars, testVars>>

\* lines 245-246: the commit before the agent runs
ReadBefore ==
    /\ pc = "before"
    /\ \E ok \in BOOLEAN :
          before_commit' = get_git_head_commit(ResolveFolder(cwd), ok)
    /\ gitQueries' = gitQueries + 1
    /\ pc' = "invoke"
    /\ UNCHANGED <<target_folder, web_files, original_cwd, cwd, file_args,
                   after_commit, aider_output, file_changed, user_output,
                   exc, exc_text, result>>
    /\ UNCHANGED <<envVars, reqVars, histVars, procVars, testVars, agentCalls, chdirCalls, elapsed>>

\* lines 252-255: call aider_main with stdout redirected
InvokeAgent ==
    /\ pc = "invoke"
    /\ sys_stdout' = redirect_stdout(OUTPUT_CAPTURE)
    /\ agentCalls' = agentCalls + 1
    /\ rev_at_call' = head
    /\ elapsed' = 0
    /\ pc' = "agent"
    /\ UNCHANGED <<target_folder, web_files, original_cwd, cwd, file_args,
                   before_commit, after_commit, aider_output, file_changed,
                   user_output, exc, exc_text, result>>
    /\ UNCHANGED <<envVars, reqVars, testVars, gitQueries, chdirCalls>>
    /\ UNCHANGED <<agent_stdout, environ_key, console>>

\* the agent commits its edit
AgentCommit ==
    /\ pc = "agent"
    /\ gitDir
    /\ head < 1 + MaxCommits
    /\ head' = head + 1
    /\ UNCHANGED <<rootExists, siteDir, files, gitDir>>
    /\ UNCHANGED <<reqVars, histVars, procVars, runVars, obsVars, testVars>>

\* the agent creates the repository
AgentGitInit ==
    /\ pc = "agent"
    /\ rootExists /\ ~gitDir
    /\ gitDir' = TRUE
    /\ UNCHANGED <<rootExists, siteDir, files, head>>
    /\ UNCHANGED <<reqVars, histVars, procVars, runVars, obsVars, testVars>>

\* the clock is followed this far while aider_main runs
ClockLimit == TEST_TIMEOUT + MaxOverrun

\* time passes while aider_main runs; nothing in run_aider_on_folder
\* limits it
Tick ==
    /\ pc = "agent"
    /\ elapsed < ClockLimit
    /\ elapsed' = elapsed + 1
    /\ UNCHANGED <<agentCalls, gitQueries, chdirCalls>>
    /\ UNCHANGED <<envVars, reqVars, histVars, procVars, runVars, testVars>>

\* line 258: aider_main returns, the captured output is read
AgentReturns ==
    /\ pc = "agent"
    /\ \E out \in AgentOutputs :
          /\ agent_stdout' = out
          /\ console' = ConsoleAfterPrint(out)
          /\ aider_output' = getvalue(out)
    /\ sys_stdout' = CONSOLE
    /\ pc' = "analyze"
    /\ elapsed' = 0
    /\ UNCHANGED <<target_folder, web_files, original_cwd, cwd, file_args,
                   before_commit, after_commit, file_changed, user_output,
                   exc, exc_text, result>>
    /\ UNCHANGED <<envVars, reqVars, testVars, agentCalls, gitQueries, chdirCalls>>
    /\ UNCHANGED <<rev_at_call, environ_key>>

\* aider_main raises an Exception: control goes to the finally block
AgentRaises ==
    /\ pc = "agent"
    /\ sys_stdout' = CONSOLE
    /\ exc' = "Exception"
    /\ \E t \in AgentErrors : exc_text' = t
    /\ pc' = "finally"
    /\ elapsed' = 0
    /\ UNCHANGED <<target_folder, web_files, original_cwd, cwd, file_args,
                   before_commit, after_commit, aider_output, file_changed,
                   user_output, result>>
    /\ UNCHANGED <<envVars, reqVars, testVars, agentCalls, gitQueries, chdirCalls>>
    /\ UNCHANGED <<histVars, environ_key, console>>

\* aider_main ends in sys.exit() or is interrupted: SystemExit and
\* KeyboardInterrupt derive from BaseException, not from Exception
AgentExits ==
    /\ pc = "agent"
    /\ sys_stdout' = CONSOLE
    /\ exc' = "BaseException"
    /\ exc_text' = <<>>
    /\ pc' = "finally"
    /\ elapsed' = 0
    /\ UNCHANGED <<target_folder, web_files, original_cwd, cwd, file_args,
                   before_commit, after_commit, aider_output, file_changed,
                   user_output, result>>
    /\ UNCHANGED <<envVars, reqVars, testVars, agentCalls, gitQueries, chdirCalls>>
    /\ UNCHANGED <<histVars, environ_key, console>>

\* line 261: compare the commits
Analyze ==
    /\ pc = "analyze"
    /\ \E ok \in BOOLEAN :
          LET d == ResolveFolder(cwd)
          IN  /\ file_changed' = analyze_aider_output(d, before_commit, ok)
              /\ after_commit' = get_git_head_commit(d, ok)
              /\ gitQueries' = gitQueries + (IF HasGit(d) THEN 1 ELSE 0)
    /\ pc' = "reduce"
    /\ UNCHANGED <<target_folder, web_files, original_cwd, cwd, file_args,
                   before_commit, aider_output, user_output, exc, exc_text,
                   result>>
    /\ UNCHANGED <<envVars, reqVars, histVars, procVars, testVars, agentCalls, chdirCalls, elapsed>>

\* line 264: the user output
Reduce ==
    /\ pc = "reduce"
    /\ user_output' = create_user_output(aider_output, file_changed)
    /\ pc' = "finally"
    /\ UNCHANGED <<target_folder, web_files, original_cwd, cwd, file_args,
                   before_commit, after_commit, aider_output, file_changed,
                   exc, exc_text, result>>
    /\ UNCHANGED <<envVars, reqVars, histVars, procVars, obsVars, testVars>>

\* faulty variant: the directory is restored on the normal path only
RestoreCwd_on_success ==
    IF exc = "none"
    THEN cwd' = original_cwd /\ chdirCalls' = chdirCalls + 1
    ELSE UNCHANGED <<cwd, chdirCalls>>

\* line 273: os.chdir(original_cwd)
RestoreCwd == cwd' = original_cwd /\ chdirCalls' = chdirCalls + 1

\* lines 266-279: the finally block restores the working directory; then
\* the return of line 266 completes, or the exception in flight reaches the
\* outer handler, which takes an Exception and lets anything else through
Finally ==
    /\ pc = "finally"
    /\ RestoreCwd
    /\ CASE exc = "none" -> Return(user_output, file_changed)
         [] exc = "Exception" -> ExceptHandler(exc_text)
         [] OTHER -> pc' = "escaped" /\ UNCHANGED result
    /\ UNCHANGED <<target_folder, web_files, original_cwd, file_args,
                   before_commit, after_commit, aider_output, file_changed,
                   user_output, exc, exc_text>>
    /\ UNCHANGED <<envVars, reqVars, histVars, procVars, testVars, agentCalls, gitQueries, elapsed>>

----------------------------------------------------------------------------
(* simple_ai_runner.run_ai_on_folder *)

\* Path.glob: "*.<ext>" matches every name that ends in ".<ext>"
PathMatch(ext, f) == f.ext = ext

PathGlobDirect(folder, ext) ==
    SelectSeq(FileOrder,
              LAMBDA f : f \in files /\ f.dir = folder /\ PathMatch(ext, f))

PathGlobRecursive(folder, ext) ==
    SelectSeq(FileOrder,
              LAMBDA f : f \in files /\ IsPrefix(folder, f.dir) /\ PathMatch(ext, f))

RECURSIVE AiFindLoop(_, _)
AiFindLoop(folder, i) ==
    IF i > Len(patterns) THEN <<>>
    ELSE PathGlobDirect(folder, patterns[i]) \o PathGlobRecursive(folder, patterns[i])
         \o AiFindLoop(folder, i + 1)

\* lines 70-73 of simple_ai_runner.py
ai_find_web_files(folder) == AiFindLoop(folder, 1)

ApiErrorMsg == Str(<<"Error calling OpenAI API: ", "HTTPError">>)

\* lines 62-79: the folder check and the search
AiFindFiles ==
    /\ pc = "ai_start"
    /\ target_folder' = ROOT
    /\ IF ~DirExists(ROOT)
       THEN /\ Return(Str(FolderNotFound), FALSE)
            /\ UNCHANGED web_files
       ELSE /\ web_files' = ai_find_web_files(ROOT)
            /\ IF web_files' = <<>>
               THEN Return(NoFilesMsg(ROOT), FALSE)
               ELSE pc' = "ai_call" /\ UNCHANGED result
    /\ UNCHANGED <<original_cwd, cwd, file_args, before_commit, after_commit,
                   aider_output, file_changed, user_output, exc, exc_text>>
    /\ UNCHANGED <<envVars, reqVars, histVars, procVars, obsVars, testVars>>

\* lines 82-106: read the files, build the messages, call the API
AiCallApi ==
    /\ pc = "ai_call"
    /\ agentCalls' = agentCalls + 1
    /\ pc' = "ai_wait"
    /\ UNCHANGED <<target_folder, web_files, original_cwd, cwd, file_args,
                   before_commit, after_commit, aider_output, file_changed,
                   user_output, exc, exc_text, result>>
    /\ UNCHANGED <<envVars, reqVars, histVars, procVars, testVars, gitQueries, chdirCalls, elapsed>>

\* call_openai_api returns the content of the reply (lines 42-43, 108-111)
AiApiReturns ==
    /\ pc = "ai_wait"
    /\ \E out \in AgentOutputs :
          /\ aider_output' = out
          /\ Return(out, FALSE)
    /\ UNCHANGED <<target_folder, web_files, original_cwd, cwd, file_args,
                   before_commit, after_commit, file_changed, user_output,
                   exc, exc_text>>
    /\ UNCHANGED <<envVars, reqVars, histVars, procVars, obsVars, testVars>>

\* the request raises an Exception: call_openai_api returns the error
\* text (lines 44-45)
AiApiFails ==
    /\ pc = "ai_wait"
    /\ exc' = "Exception"
    /\ Return(ApiErrorMsg, FALSE)
    /\ UNCHANGED <<target_folder, web_files, original_cwd, cwd, file_args,
                   before_commit, after_commit, aider_output, file_changed,
                   user_output, exc_text>>
    /\ UNCHANGED <<envVars, reqVars, histVars, procVars, obsVars, testVars>>

\* the request is interrupted: KeyboardInterrupt passes both handlers
AiApiExits ==
    /\ pc = "ai_wait"
    /\ exc' = "BaseException"
    /\ pc' = "escaped"
    /\ UNCHANGED <<target_folder, web_files, original_cwd, cwd, file_args,
                   before_commit, after_commit, aider_output, file_changed,
                   user_output, exc_text, result>>
    /\ UNCHANGED <<envVars, reqVars, histVars, procVars, obsVars, testVars>>

----------------------------------------------------------------------------
(* AiderAnalysis.run_aider_test *)

TestRecord(ok, out, err, rc) ==
    [success |-> ok, stdout |-> out, stderr |-> err, return_code |-> rc]

\* lines 107-115: the result of a test that timed out
TimeoutResult == TestRecord(FALSE, EmptyStr, Str(<<"Test timed out">>), -1)

\* faulty variant: the process is left running
KillProcess_forgotten == UNCHANGED procAlive

\* line 109: process.kill()
KillProcess == procAlive' = FALSE

\* lines 76-84: Popen starts aider
TestStart ==
    /\ pc = "test_start"
    /\ procAlive' = TRUE
    /\ agentCalls' = agentCalls + 1
    /\ elapsed' = 0
    /\ pc' = "communicate"
    /\ UNCHANGED test_result
    /\ UNCHANGED <<envVars, reqVars, histVars, procVars, runVars_but_pc, gitQueries, chdirCalls>>

\* Popen raises (aider is not installed): lines 116-123
TestStartFails ==
    /\ pc = "test_start"
    /\ exc' = "Exception"
    /\ test_result' = Append(test_result,
                             TestRecord(FALSE, EmptyStr, Str(<<"No such file">>), -1))
    /\ pc' = "tested"
    /\ UNCHANGED procAlive
    /\ UNCHANGED <<target_folder, web_files, original_cwd, cwd, file_args,
                   before_commit, after_commit, aider_output, file_changed,
                   user_output, exc_text, result>>
    /\ UNCHANGED <<envVars, reqVars, histVars, procVars, obsVars>>

\* time passes in communicate()
TestTick ==
    /\ pc = "communicate"
    /\ elapsed < TEST_TIMEOUT
    /\ elapsed' = elapsed + 1
    /\ UNCHANGED <<agentCalls, gitQueries, chdirCalls>>
    /\ UNCHANGED <<envVars, reqVars, histVars, procVars, runVars, testVars>>

\* lines 87-105: the process ends in time
TestCompletes ==
    /\ pc = "communicate"
    /\ procAlive' = FALSE
    /\ \E rc \in {0, 1}, out \in {EmptyStr, Str(ContentLine)} :
          test_result' = Append(test_result, TestRecord(rc = 0, out, EmptyStr, rc))
    /\ pc' = "tested"
    /\ UNCHANGED <<envVars, reqVars, histVars, procVars, runVars_but_pc, obsVars>>

\* lines 107-115: communicate() raises TimeoutExpired
TestTimesOut ==
    /\ pc = "communicate"
    /\ elapsed = TEST_TIMEOUT
    /\ exc' = "TimeoutExpired"
    /\ KillProcess
    /\ test_result' = Append(test_result, TimeoutResult)
    /\ pc' = "tested"
    /\ UNCHANGED <<target_folder, web_files, original_cwd, cwd, file_args,
                   before_commit, after_commit, aider_output, file_changed,
                   user_output, exc_text, result>>
    /\ UNCHANGED <<envVars, reqVars, histVars, procVars, obsVars>>

Next ==
    \/ PickTarget
    \/ FindFiles
    \/ EnterTarget
    \/ EnterTargetFails
    \/ BuildArgv
    \/ ReadBefore
    \/ InvokeAgent
    \/ AgentCommit
    \/ AgentGitInit
    \/ Tick
    \/ AgentReturns
    \/ AgentRaises
    \/ AgentExits
    \/ Analyze
    \/ Reduce
    \/ Finally
    \/ AiFindFiles
    \/ AiCallApi
    \/ AiApiReturns
    \/ AiApiFails
    \/ AiApiExits
    \/ TestStart
    \/ TestStartFails
    \/ TestTick
    \/ TestCompletes
    \/ TestTimesOut

Spec == Init /\ [][Next]_vars

----------------------------------------------------------------------------
(* create_user_output on its own: run_aider_on_folder at line 264, with    *)
(* every output an agent may have printed                                  *)

BannerLine         == <<"Aider v", "0.86.1">>
RuleLine           == <<BOX, BOX, BOX>>
RepoLine           == <<"Git repo:", SP, ".git">>
IndentedModelLine  == <<SP, "Main model:", SP, "gpt-5">>
IndentedAddedLine  == <<SP>> \o AddedLine
IndentedTokensLine == <<SP, "Tokens:", SP, "900", SP, "sent">>

ReduceLines ==
    AgentLines \cup {BannerLine, RuleLine, RepoLine, IndentedModelLine,
                     IndentedAddedLine, IndentedTokensLine}

ReduceOutputs == UNION {[1..n -> ReduceLines] : n \in 1..MaxReduceLines}

\* run_aider_on_folder after line 261: a folder with index.html in a
\* repository, named by its absolute path; the agent has returned and the
\* commits are compared
ReduceInit ==
    /\ runner = "aider"
    /\ rootExists = TRUE /\ siteDir = FALSE /\ gitDir = TRUE
    /\ files = {File(ROOT, "index", "html")}
    /\ form = "abs" /\ cwd0 = OUTSIDE
    /\ pc = "reduce"
    /\ target_folder = ROOT
    /\ web_files = find_web_files(ROOT)
    /\ file_args = [i \in 1..Len(web_files) |-> relpath(web_files[i], ROOT)]
    /\ original_cwd = cwd0
    /\ cwd = ROOT
    /\ before_commit = <<CommitIds[1]>>
    /\ head \in {1, 2}
    /\ after_commit = <<CommitIds[head]>>
    /\ file_changed = (before_commit # after_commit)
    /\ aider_output \in ReduceOutputs
    /\ user_output = EmptyStr
    /\ exc = "none"
    /\ exc_text = <<>>
    /\ result = <<>>
    /\ procAlive = FALSE
    /\ test_result = <<>>
    /\ agentCalls = 1
    /\ gitQueries = 2
    /\ chdirCalls = 1
    /\ elapsed = 0
    /\ agent_stdout = aider_output
    /\ rev_at_call = 1
    /\ environ_key = TRUE
    /\ sys_stdout = CONSOLE
    /\ console = <<>>

ReduceNext == Reduce \/ Finally

ReduceSpec == ReduceInit /\ [][ReduceNext]_vars

----------------------------------------------------------------------------
(* The entry points: main of aider_runner and of simple_ai_runner, and
   AiderAnalysis.run_analysis *)

\* the models run_analysis tests, one after the other
models == <<"gpt-4o", "gpt-4o-mini", "gpt-5">>

\* the folders main is started on: none, an empty one, a landing page
\* with or without a site directory
MainFolder ==
    /\ AnyFolder
    /\ files \subseteq {File(ROOT, "index", "html"), File(SITE, "index", "html")}

\* the process starts: no folder has been looked at and nothing is printed;
\* OPENAI_API_KEY is in the environment or not
MainInit ==
    /\ \/ /\ runner = "aider"
          /\ MainFolder
          /\ AnyRepository
          /\ \E r \in Requests : form = r[1] /\ cwd0 = r[2]
          /\ pc = "main"
       \/ /\ runner = "simple"
          /\ MainFolder
          /\ gitDir = FALSE /\ head = 0
          /\ form = "abs" /\ cwd0 = OUTSIDE
          /\ pc = "main"
       \/ /\ runner = "analysis"
          /\ rootExists = FALSE /\ files = {} /\ siteDir = FALSE
          /\ gitDir = FALSE /\ head = 0
          /\ form = "rel" /\ cwd0 = OUTSIDE
          /\ pc = "run_analysis"
    /\ environ_key \in BOOLEAN
    /\ sys_stdout = CONSOLE
    /\ console = <<>>
    /\ procAlive = FALSE
    /\ test_result = <<>>
    /\ target_folder = ROOT
    /\ web_files = <<>>
    /\ original_cwd = cwd0
    /\ cwd = cwd0
    /\ file_args = <<>>
    /\ before_commit = <<>>
    /\ after_commit = <<>>
    /\ aider_output = EmptyStr
    /\ file_changed = FALSE
    /\ user_output = EmptyStr
    /\ exc = "none"
    /\ exc_text = <<>>
    /\ result = <<>>
    /\ agentCalls = 0
    /\ gitQueries = 0
    /\ chdirCalls = 0
    /\ elapsed = 0
    /\ agent_stdout = EmptyStr
    /\ rev_at_call = 0

\* lines 317-318 (simple_ai_runner 149-150): the key of --api-key, when one
\* is given, is put into os.environ
SetKey(arg_key) == environ_key \/ arg_key

\* faulty variant: a missing key is not noticed
MissingKey_ignored(key) == FALSE

\* line 321 (simple_ai_runner 153-154, aider_analysis 201):
\* not os.getenv("OPENAI_API_KEY")
MissingKey(key) == ~key

\* main, lines 314-324 (simple_ai_runner 146-156): the arguments are read,
\* the key is looked for; without a key the warning is printed and main
\* returns, with a key run_aider_on_folder (run_ai_on_folder) is called
MainCheckKey ==
    /\ pc = "main"
    /\ \E arg_key \in BOOLEAN : environ_key' = SetKey(arg_key)
    /\ IF MissingKey(environ_key')
       THEN /\ console' = Append(console, KeyWarning)
            /\ pc' = "exited"
       ELSE /\ console' = console
            /\ pc' = IF runner = "aider" THEN "start" ELSE "ai_start"
    /\ UNCHANGED sys_stdout
    /\ UNCHANGED <<envVars, reqVars, runVars_but_pc, obsVars, testVars, histVars>>

\* main, line 334 (simple_ai_runner 167): print(json.dumps(result))
MainPrint ==
    /\ pc = "returned"
    /\ runner \in {"aider", "simple"}
    /\ console' = Append(console, JsonResult)
    /\ pc' = "exited"
    /\ UNCHANGED <<environ_key, sys_stdout>>
    /\ UNCHANGED <<envVars, reqVars, runVars_but_pc, obsVars, testVars, histVars>>

\* run_analysis, lines 196-198: setup_test_environment makes the test site
\* (lines 26-51), or fails, prints the error and run_analysis returns
\* (lines 53-55)
AnalysisSetup ==
    /\ pc = "run_analysis"
    /\ \/ /\ rootExists' = TRUE
          /\ files' = {File(ROOT, "index", "html")}
          /\ console' = console
          /\ pc' = "analysis_key"
       \/ /\ rootExists' \in BOOLEAN
          /\ files' = {}
          /\ console' = Append(console, SetupError)
          /\ pc' = "exited"
    /\ UNCHANGED <<siteDir, gitDir, head>>
    /\ UNCHANGED <<environ_key, sys_stdout>>
    /\ UNCHANGED <<reqVars, runVars_but_pc, obsVars, testVars, histVars>>

\* run_analysis, lines 200-204: without a key the error is printed and
\* run_analysis returns
AnalysisCheckKey ==
    /\ pc = "analysis_key"
    /\ IF MissingKey(environ_key)
       THEN /\ console' = Append(console, KeyWarning)
            /\ pc' = "exited"
       ELSE /\ console' = console
            /\ pc' = "test_start"
    /\ UNCHANGED <<environ_key, sys_stdout>>
    /\ UNCHANGED <<envVars, reqVars, runVars_but_pc, obsVars, testVars, histVars>>

\* run_analysis, lines 211-214: the next model is tested
AnalysisNextModel ==
    /\ pc = "tested"
    /\ Len(test_result) < Len(models)
    /\ exc' = "none"
    /\ pc' = "test_start"
    /\ UNCHANGED <<target_folder, web_files, original_cwd, cwd, file_args,
                   before_commit, after_commit, aider_output, file_changed,
                   user_output, exc_text, result>>
    /\ UNCHANGED <<envVars, reqVars, obsVars, testVars, histVars, procVars>>

\* run_analysis, lines 216-232: every model is tested, the report is written
AnalysisReport ==
    /\ pc = "tested"
    /\ Len(test_result) = Len(models)
    /\ pc' = "exited"
    /\ UNCHANGED <<envVars, reqVars, runVars_but_pc, obsVars, testVars,
                   histVars, procVars>>

MainNext ==
    \/ MainCheckKey
    \/ MainPrint
    \/ AnalysisSetup
    \/ AnalysisCheckKey
    \/ AnalysisNextModel
    \/ AnalysisReport
    \/ Next

MainSpec == MainInit /\ [][MainNext]_vars

----------------------------------------------------------------------------
(* run_aider_on_folder with the streams of the agent observed *)

\* aider_main writes to sys.stderr during its call: nothing in
\* run_aider_on_folder reassigns sys.stderr, the text goes to the console
AgentWritesStderr ==
    /\ pc = "agent"
    /\ Len(console) < MaxStderrWrites
    /\ console' = Append(console, AgentStderr)
    /\ UNCHANGED <<environ_key, sys_stdout>>
    /\ UNCHANGED <<envVars, reqVars, runVars, obsVars, testVars, histVars>>

\* run_aider_on_folder is called with an absolute folder_path
CaptureInit ==
    /\ Init
    /\ runner = "aider"
    /\ form = "abs"
    /\ MainFolder

CaptureNext ==
    \/ PickTarget
    \/ FindFiles
    \/ EnterTarget
    \/ EnterTargetFails
    \/ BuildArgv
    \/ ReadBefore
    \/ InvokeAgent
    \/ AgentCommit
    \/ AgentGitInit
    \/ Tick
    \/ AgentWritesStderr
    \/ AgentReturns
    \/ AgentRaises
    \/ AgentExits
    \/ Analyze
    \/ Reduce
    \/ Finally

CaptureSpec == CaptureInit /\ [][CaptureNext]_vars

----------------------------------------------------------------------------
(* Properties *)

Range(q) == {q[i] : i \in DOMAIN q}
NoDuplicates(q) == \A i, j \in DOMAIN q : i # j => q[i] # q[j]

WebExts == {"html", "js", "css"}
IsWebFile(f) == f.ext \in WebExts

\* the call has ended, by a return or by an exception that left it
Ended == pc \in {"returned", "escaped"}

\* the confirmation of lines 155-157, which no path reaches
Confirmation ==
    Str(<<"Changes applied successfully! Your requested changes have been applied to the site.">>)

\* C1: every request ends by returning exactly one record {userOutput,
\* fileChanged}; no exception leaves run_aider_on_folder / run_ai_on_folder,
\* and a request that failed reports fileChanged = false.
C1_OneRecordNoEscape ==
    /\ pc # "escaped"
    /\ Len(result) <= 1
    /\ pc = "returned" => Len(result) = 1
    /\ pc = "returned" /\ exc # "none" => ~result[1].fileChanged

\* C2: a result of run_aider_on_folder with fileChanged = true carries the
\* one fixed confirmation string, whatever the agent printed.
C2_FixedConfirmation ==
    runner = "aider" =>
        \A i \in DOMAIN result :
            result[i].fileChanged => result[i].userOutput = Confirmation

\* C3: userOutput of every result run_aider_on_folder returns is a
\* non-empty string.
C3_NonEmptyOutput ==
    runner = "aider" =>
        \A i \in DOMAIN result : result[i].userOutput # EmptyStr

\* C4: when the commit read before the run or the commit read after it is
\* empty, no change is reported.
C4_EmptyFingerprintNoChange ==
    (before_commit = <<>> \/ after_commit = <<>>) => ~file_changed

\* C5: for two non-empty commits the reported change is their inequality.
C5_ChangeIsInequality ==
    (before_commit # <<>> /\ after_commit # <<>>)
        => (file_changed <=> before_commit # after_commit)

\* C5 witness: the agent moved HEAD and the change was reported
C5_Witness ==
    /\ pc = "returned"
    /\ before_commit # <<>> /\ after_commit # <<>>
    /\ before_commit # after_commit
    /\ result = <<Record(user_output, TRUE)>>

\* C6: when the target folder holds no .html, .js or .css file the request
\* returns fileChanged = false with the "no files found" text, and up to that
\* return no agent call, no os.chdir and no git query was made.
C6_NoFilesNoAgent ==
    ( /\ runner \in {"aider", "simple"}
      /\ pc \notin {"start", "find", "ai_start"}
      /\ DirExists(target_folder)
      /\ ~\E f \in files : IsPrefix(target_folder, f.dir) /\ IsWebFile(f) )
    => /\ pc = "returned"
       /\ result = <<Record(NoFilesMsg(target_folder), FALSE)>>
       /\ agentCalls = 0 /\ chdirCalls = 0 /\ gitQueries = 0
       /\ cwd = cwd0

\* C6 witness: the site folder is empty although the folder above it holds
\* a web file
C6_Witness ==
    /\ runner = "aider"
    /\ pc = "returned"
    /\ target_folder = SITE
    /\ File(ROOT, "index", "html") \in files
    /\ result = <<Record(NoFilesMsg(SITE), FALSE)>>
    /\ agentCalls = 0

\* the steps of run_aider_on_folder between os.chdir(target_folder) and the
\* end of the finally block
InAgentScope ==
    pc \in {"argv", "before", "invoke", "agent", "analyze", "reduce", "finally"}

C9_NoDuplicateFiles ==
    NoDuplicates(web_files) /\ NoDuplicates(file_args)

\* the web files below the site folder
SiteFiles == {f \in files : IsWebFile(f) /\ IsPrefix(SITE, f.dir)}

\* the web files directly inside the other subdirectories of the folder
SiblingFiles == {f \in files : IsWebFile(f) /\ Len(f.dir) = 1 /\ f.dir # SITE}

IsPreambleLine(line) ==
    \/ \A i \in DOMAIN line : IsSpace(line[i])
    \/ /\ line # <<>>
       /\ line[1] \in {BOX, "Aider v", "Main model:", "Weak model:",
                       "Git repo:", "Repo-map:"}
    \/ /\ Len(line) >= 7
       /\ line[1] = "Added" /\ line[2] = SP
       /\ SubSeq(line, Len(line) - 5, Len(line)) = <<SP, "to", SP, "the", SP, "chat.">>

\* a token-accounting line
IsTokensLine(line) ==
    \E i \in DOMAIN line :
        /\ line[i] = "Tokens:"
        /\ \A j \in 1..(i - 1) : IsSpace(line[j])

\* preamble lines only, up to the end or up to a token-accounting line
OnlyPreamble(t) ==
    \E k \in 0..Len(t) :
        /\ \A i \in 1..k : IsPreambleLine(t[i])
        /\ k = Len(t) \/ IsTokensLine(t[k + 1])

\* C11: with fileChanged = false, an output made of preamble lines only,
\* with or without a token-accounting line and anything after it, gives
\* exactly the fallback message.
C11_PreambleGivesFallback ==
    (runner = "aider" /\ pc \in {"finally", "returned"} /\ exc = "none"
        /\ agentCalls > 0 /\ ~file_changed /\ OnlyPreamble(aider_output))
    => user_output = Fallback

\* C11 witness: banner, model and added lines, then a token-accounting line
\* with text after it
C11_Witness ==
    /\ pc = "returned"
    /\ aider_output = <<ModelLine, TokensLine, ContentLine>>
    /\ result = <<Record(Fallback, FALSE)>>

\* len() of a string: its tokens and the line breaks between its lines
RECURSIVE TextLen(_)
TextLen(t) ==
    IF t = <<>> THEN 0
    ELSE Len(Head(t)) + (IF Len(t) > 1 THEN 1 ELSE 0) + TextLen(Tail(t))

\* the marker a truncated output ends in
TruncationMarker == <<"...[truncated]">>

\* the raw output run_aider_on_folder hands back: userOutput of a result
\* with fileChanged = true
RetainedRaw == result[1].userOutput

BeforeKeyCheck == pc \in {"main", "run_analysis", "analysis_key"}

\* C13: without an API key (none in the environment and none given with
\* --api-key) the entry point prints its warning and returns; no agent is
\* called, no API request is made and nothing escapes.  run_analysis may
\* end before the key is looked for, with the error of
\* setup_test_environment as its message.
C13_NoKeyNoRequest ==
    ~environ_key =>
        /\ agentCalls = 0 /\ gitQueries = 0 /\ chdirCalls = 0
        /\ ~procAlive
        /\ result = <<>> /\ test_result = <<>>
        /\ exc = "none"
        /\ ~BeforeKeyCheck =>
              /\ pc = "exited"
              /\ console \in {<<KeyWarning>>, <<SetupError>>}
              /\ runner # "analysis" => console = <<KeyWarning>>

\* C13 witness: main has returned after the warning, nothing was run
C13_Witness ==
    /\ runner = "aider" /\ rootExists /\ files # {}
    /\ ~environ_key
    /\ pc = "exited"
    /\ console = <<KeyWarning>>
    /\ agentCalls = 0

\* the agent has returned and its output has been read from the buffer
OutputRead ==
    /\ runner = "aider" /\ agentCalls > 0 /\ exc = "none"
    /\ pc \in {"analyze", "reduce", "finally", "returned"}

\* sys.stdout names the buffer during the call of the agent and the
\* console at every other time
StdoutRedirectedInCallOnly ==
    sys_stdout = IF pc = "agent" THEN OUTPUT_CAPTURE ELSE CONSOLE

\* C14: everything the agent writes during its call, to standard output and
\* to standard error, ends up in the raw output and nothing of it reaches
\* the console; after the call the streams are the original ones again.
C14_NothingReachesConsole ==
    /\ StdoutRedirectedInCallOnly
    /\ OutputRead => aider_output = agent_stdout
    /\ AgentStdout \notin Range(console)
    /\ AgentStderr \notin Range(console)

\* C14 as amended: what the agent prints to sys.stdout ends up in the raw
\* output and does not reach the console; sys.stdout is the original stream
\* again once the call is over, however it ended.
C14_StdoutCaptured ==
    /\ StdoutRedirectedInCallOnly
    /\ OutputRead => aider_output = agent_stdout
    /\ AgentStdout \notin Range(console)

\* C14 witness: the agent has printed an answer and written to standard
\* error; the answer is the raw output, the other text is on the console
C14_Witness ==
    /\ pc = "returned" /\ exc = "none" /\ agentCalls = 1
    /\ agent_stdout = <<ContentLine>>
    /\ aider_output = agent_stdout
    /\ console = <<AgentStderr>>
    /\ sys_stdout = CONSOLE

\* C15: in one request the before-commit is read before the agent starts,
\* the after-commit only after the agent has returned and the user output
\* is made only after the comparison; both commits are read in the folder
\* the caller named, also when the agent works in its site directory, so
\* fileChanged says exactly whether HEAD moved across the call of the agent.
C15_OrderedSameDirectory ==
    runner = "aider" =>
        /\ agentCalls > 0 => gitQueries >= 1
        /\ pc \in {"invoke", "agent", "analyze"} =>
              /\ gitQueries = 1
              /\ after_commit = <<>>
              /\ ResolveFolder(cwd) = ROOT
        /\ user_output # EmptyStr => pc \in {"finally", "returned", "escaped"}
        /\ (pc \in {"reduce", "finally", "returned"} /\ agentCalls > 0 /\ exc = "none")
              => (file_changed <=> head # rev_at_call)

====
